---- MODULE Spec2Model ----
(***************************************************************************)
(* Model of create_tarball (src/data_transfer_tool/cli.py, lines 117-221): *)
(* the resumable archive builder of the data-transfer tool.                *)
(*                                                                         *)
(* The files the function touches are the state: the archive at            *)
(* tarball_path, the segment tarball_path + ".temp", the concatenation     *)
(* tarball_path + ".new" and the progress file.  An invocation is a        *)
(* process with a program counter; it can be killed at any step.           *)
(*                                                                         *)
(* An archive file is a sequence of items:                                 *)
(*   <<"full", f>>  member f, completely written                           *)
(*   <<"part", f>>  member f, header written, data cut short: the          *)
(*                  compressed stream ends inside it                       *)
(*   <<"cut", 0>>   the compressed stream ends between two members         *)
(*                  without the end-of-archive marker                      *)
(*   <<"eoa", 0>>   end-of-archive marker and end of the gzip stream       *)
(* GNU tar 1.34 behaviour the model relies on: "tar -tzf" prints the name  *)
(* of a member whose data is cut short before it fails, it stops at the    *)
(* first end-of-archive marker (no --ignore-zeros), and nothing that       *)
(* follows a cut gzip stream can be read.                                  *)
(*                                                                         *)
(* SpecSource and SpecSidecar let the source tree and the progress file    *)
(* change between runs.  SpecMain adds main, upload_to_s3 and              *)
(* download_from_s3 (lines 35-115, 223-274): the bucket holds the object   *)
(* or not, the destination file exists or not, and the calls a process     *)
(* makes are kept in calls.                                                *)
(***************************************************************************)
EXTENDS Integers, Sequences, FiniteSets, TLC

\* Number of regular files of the source tree.
NFiles == 2

\* Largest archive (in items) a new invocation is started on.
MaxItems == 9

Files == 1..NFiles

\* Invocations of the tool.  Spec runs them one after the other,
\* SpecConcurrent lets two of them overlap.
Procs == {"run1", "run2"}

VARIABLES
    source,          \* relative paths of the regular files under source_folder
    unreadable,      \* source files tar cannot open (permission, disappeared)
    tarball,         \* the file at tarball_path
    temp_tarball,    \* the file at tarball_path + ".temp"
    new_tarball,     \* the file at tarball_path + ".new"
    progress_file,   \* the sidecar <source_basename>.filelist.txt
    pc,              \* position of each invocation in create_tarball
    todo,            \* entries the tar subprocess of an invocation still has to write
    archived_list,   \* archived_list / temp_archived: lines read from tar -v
    archived_files,  \* archived_files: the listing of the existing tarball
    tar_error,       \* what the tar subprocess has failed on so far
    lastResult,      \* how the most recently ended invocation ended
    interrupted,     \* some invocation has been killed
    at_start,        \* tarball and progress file when the latest invocation started,
                     \* and whether it found a .temp or a .new file with content
    modified,        \* source files whose content changed after they were archived
    main_pc,         \* position of main, upload_to_s3 or download_from_s3
    flags,           \* --extract and --delete-s3-tarball of a download
    s3_object,       \* whether the key exists in the bucket
    local_file,      \* the file at the download's destination_path
    calls            \* what upload_to_s3 / download_from_s3 have done in this invocation

vars == <<source, unreadable, tarball, temp_tarball, new_tarball, progress_file,
          pc, todo, archived_list, archived_files, tar_error, lastResult,
          interrupted, at_start, modified, main_pc, flags, s3_object,
          local_file, calls>>

\* What create_tarball does not touch: the content of the source files and
\* the state of the transfer functions.
others == <<modified, main_pc, flags, s3_object, local_file, calls>>

locals == <<todo, archived_list, archived_files, tar_error>>

----------------------------------------------------------------------------
\* Files

Absent == [exists |-> FALSE, data |-> <<>>]

FileOf(d) == [exists |-> TRUE, data |-> d]

NoRecord == [exists |-> FALSE, paths |-> {}, marker |-> "none"]

Full(f) == <<"full", f>>

Part(f) == <<"part", f>>

Cut == <<"cut", 0>>

EOA == <<"eoa", 0>>

\* Output of "tar -tzf" from item i on: the names of the members up to the
\* first end-of-archive marker or the point where the stream is cut; the
\* name of a member whose data is cut short is still printed.  The exit
\* status of the command is not looked at (os.popen(...).read()).
RECURSIVE ListFrom(_, _)
ListFrom(d, i) ==
    IF i > Len(d) THEN {}
    ELSE CASE d[i][1] = "full" -> {d[i][2]} \cup ListFrom(d, i + 1)
           [] d[i][1] = "part" -> {d[i][2]}
           [] OTHER -> {}

tar_list_output(d) == ListFrom(d, 1)

\* The listing of the archive is not subtracted.
missing_files_Everything(all_files, listed) == all_files

\* The paths of the progress file are subtracted as well.
missing_files_MinusSidecar(all_files, listed) ==
    all_files \ (listed \cup progress_file.paths)

\* A listed path whose file was rewritten counts as missing again.
missing_files_PlusModified(all_files, listed) ==
    all_files \ (listed \ modified)

\* all_files - archived_files
missing_files(all_files, listed) == all_files \ listed

\* cat temp > new: the existing tarball is left out of the concatenation.
Concatenated_SegmentOnly(a, b) == b

\* cat a b > new
Concatenated(a, b) == a \o b

\* The status of the tar subprocess is not looked at.
returncode_Ignored(err) == 0

\* process.returncode of the tar subprocess
returncode(err) == IF err = "none" THEN 0 ELSE 2

\* What a tar subprocess that is stopped in the middle of its run leaves at
\* the end of its output file.
CutItems(p) == {Cut} \cup {Part(f) : f \in todo[p] \ unreadable}

TarPcs == {"fresh_tar", "res_tar"}

TarData(p) == IF pc[p] = "fresh_tar" THEN tarball.data ELSE temp_tarball.data

WriteTar(p, d) ==
    IF pc[p] = "fresh_tar"
    THEN tarball' = FileOf(d) /\ UNCHANGED temp_tarball
    ELSE temp_tarball' = FileOf(d) /\ UNCHANGED tarball

\* The invocation ends: its locals are gone.
Ends(p, result) ==
    /\ pc' = [pc EXCEPT ![p] = "idle"]
    /\ lastResult' = result
    /\ todo' = [todo EXCEPT ![p] = {}]
    /\ archived_list' = [archived_list EXCEPT ![p] = {}]
    /\ archived_files' = [archived_files EXCEPT ![p] = {}]
    /\ tar_error' = [tar_error EXCEPT ![p] = "none"]

----------------------------------------------------------------------------
Init ==
    /\ source = Files
    /\ unreadable \in SUBSET Files
    /\ tarball = Absent
    /\ temp_tarball = Absent
    /\ new_tarball = Absent
    /\ progress_file = NoRecord
    /\ pc = [p \in Procs |-> "idle"]
    /\ todo = [p \in Procs |-> {}]
    /\ archived_list = [p \in Procs |-> {}]
    /\ archived_files = [p \in Procs |-> {}]
    /\ tar_error = [p \in Procs |-> "none"]
    /\ lastResult = "none"
    /\ interrupted = FALSE
    /\ at_start = [tarball |-> Absent, progress_file |-> NoRecord,
                   temp_left |-> FALSE, new_left |-> FALSE]
    /\ modified = {}
    /\ main_pc = "idle"
    /\ flags = [extract |-> FALSE, delete_s3_tarball |-> FALSE]
    /\ s3_object = FALSE
    /\ local_file = "absent"
    /\ calls = {}

\* create_tarball is entered: os.path.exists(tarball_path) picks the branch.
Start(p) ==
    /\ pc[p] = "idle"
    /\ tarball.exists => Len(tarball.data) + NFiles + 1 <= MaxItems
    /\ pc' = [pc EXCEPT ![p] = IF tarball.exists THEN "list" ELSE "fresh_popen"]
    /\ at_start' = [tarball |-> tarball, progress_file |-> progress_file,
                    temp_left |-> temp_tarball.data # <<>>,
                    new_left |-> new_tarball.data # <<>>]
    /\ UNCHANGED <<source, unreadable, tarball, temp_tarball, new_tarball,
                   progress_file, locals, lastResult, interrupted>>

\* tar -czvf tarball_path -C source_parent source_basename is started: tar
\* creates (or truncates) its output file and walks the whole folder.
FreshPopen(p) ==
    /\ pc[p] = "fresh_popen"
    /\ tarball' = FileOf(<<>>)
    /\ todo' = [todo EXCEPT ![p] = source]
    /\ archived_list' = [archived_list EXCEPT ![p] = {}]
    /\ tar_error' = [tar_error EXCEPT ![p] = "none"]
    /\ pc' = [pc EXCEPT ![p] = "fresh_tar"]
    /\ UNCHANGED <<source, unreadable, temp_tarball, new_tarball, progress_file,
                   archived_files, lastResult, interrupted, at_start>>

\* tar writes one member to its output and prints its name; the loop over
\* process.stdout appends the line.
TarEntry(p) ==
    /\ pc[p] \in TarPcs
    /\ \E f \in todo[p] \ unreadable :
          /\ WriteTar(p, Append(TarData(p), Full(f)))
          /\ todo' = [todo EXCEPT ![p] = @ \ {f}]
          /\ archived_list' = [archived_list EXCEPT ![p] = @ \cup {f}]
    /\ UNCHANGED <<source, unreadable, new_tarball, progress_file, pc,
                   archived_files, tar_error, lastResult, interrupted, at_start>>

\* tar cannot open an entry: it warns, goes on with the next entry and will
\* exit with status 2.
TarSkipEntry(p) ==
    /\ pc[p] \in TarPcs
    /\ \E f \in todo[p] \cap unreadable :
          todo' = [todo EXCEPT ![p] = @ \ {f}]
    /\ tar_error' = [tar_error EXCEPT ![p] = "entry"]
    /\ UNCHANGED <<source, unreadable, tarball, temp_tarball, new_tarball,
                   progress_file, pc, archived_list, archived_files,
                   lastResult, interrupted, at_start>>

\* tar has handled every entry: it writes the end-of-archive marker and
\* exits; process.wait() returns and the return code is checked.
TarClose(p) ==
    /\ pc[p] \in TarPcs
    /\ todo[p] = {}
    /\ WriteTar(p, Append(TarData(p), EOA))
    /\ IF returncode(tar_error[p]) # 0
       THEN Ends(p, "exit1_entry")
       ELSE /\ pc' = [pc EXCEPT ![p] = IF pc[p] = "fresh_tar"
                                       THEN "fresh_write_open" ELSE "cat_open"]
            /\ UNCHANGED <<locals, lastResult>>
    /\ UNCHANGED <<source, unreadable, new_tarball, progress_file,
                   interrupted, at_start>>

\* tar cannot write its output (disk full, archive unwritable): it stops
\* where it is and exits with status 2; create_tarball exits with status 1.
TarIOFail(p) ==
    /\ pc[p] \in TarPcs
    /\ \E c \in CutItems(p) : WriteTar(p, Append(TarData(p), c))
    /\ Ends(p, "exit1_io")
    /\ UNCHANGED <<source, unreadable, new_tarball, progress_file,
                   interrupted, at_start>>

\* open(progress_file, 'w'): the file is created or truncated in place.
OpenProgress(p) ==
    /\ pc[p] \in {"fresh_write_open", "res_write_open"}
    /\ progress_file' = [exists |-> TRUE, paths |-> {}, marker |-> "none"]
    /\ pc' = [pc EXCEPT ![p] = IF pc[p] = "fresh_write_open"
                               THEN "fresh_write_paths" ELSE "res_write_paths"]
    /\ UNCHANGED <<source, unreadable, tarball, temp_tarball, new_tarball,
                   locals, lastResult, interrupted, at_start>>

\* The names are written: archived_list after a fresh build,
\* archived_files.union(set(temp_archived)) after a resumed one.
WritePaths(p) ==
    /\ pc[p] \in {"fresh_write_paths", "res_write_paths"}
    /\ progress_file' =
          [progress_file EXCEPT
              !.exists = TRUE,
              !.paths = @ \cup (IF pc[p] = "fresh_write_paths"
                                THEN archived_list[p]
                                ELSE archived_files[p] \cup archived_list[p])]
    /\ pc' = [pc EXCEPT ![p] = IF pc[p] = "fresh_write_paths"
                               THEN "fresh_write_mark" ELSE "res_write_mark"]
    /\ UNCHANGED <<source, unreadable, tarball, temp_tarball, new_tarball,
                   locals, lastResult, interrupted, at_start>>

\* "Complete" or "Resumed and complete" is written, the file is closed and
\* create_tarball returns.
WriteMarker(p) ==
    /\ pc[p] \in {"fresh_write_mark", "res_write_mark"}
    /\ progress_file' =
          [progress_file EXCEPT
              !.exists = TRUE,
              !.marker = IF pc[p] = "fresh_write_mark"
                         THEN "Complete" ELSE "Resumed and complete"]
    /\ Ends(p, "done")
    /\ UNCHANGED <<source, unreadable, tarball, temp_tarball, new_tarball,
                   interrupted, at_start>>

\* The existing tarball is listed and compared with the walk of the source
\* folder; with nothing missing the function prints "All files have already
\* been archived." and returns.
ListArchive(p) ==
    /\ pc[p] = "list"
    /\ LET listed == tar_list_output(tarball.data)
           missing == missing_files(source, listed)
       IN IF missing = {}
          THEN Ends(p, "already")
          ELSE /\ archived_files' = [archived_files EXCEPT ![p] = listed]
               /\ todo' = [todo EXCEPT ![p] = missing]
               /\ pc' = [pc EXCEPT ![p] = "res_popen"]
               /\ UNCHANGED <<archived_list, tar_error, lastResult>>
    /\ UNCHANGED <<source, unreadable, tarball, temp_tarball, new_tarball,
                   progress_file, interrupted, at_start>>

\* The resume tar writes behind what a file at tarball_path.temp already
\* holds.
ResumePopen_KeepsStale(p) ==
    /\ pc[p] = "res_popen"
    /\ temp_tarball' = FileOf(temp_tarball.data)
    /\ archived_list' = [archived_list EXCEPT ![p] = {}]
    /\ tar_error' = [tar_error EXCEPT ![p] = "none"]
    /\ pc' = [pc EXCEPT ![p] = "res_tar"]
    /\ UNCHANGED <<source, unreadable, tarball, new_tarball, progress_file,
                   todo, archived_files, lastResult, interrupted, at_start>>

\* tar -czvf tarball_path.temp -C source_parent <missing files> is started.
ResumePopen(p) ==
    /\ pc[p] = "res_popen"
    /\ temp_tarball' = FileOf(<<>>)
    /\ archived_list' = [archived_list EXCEPT ![p] = {}]
    /\ tar_error' = [tar_error EXCEPT ![p] = "none"]
    /\ pc' = [pc EXCEPT ![p] = "res_tar"]
    /\ UNCHANGED <<source, unreadable, tarball, new_tarball, progress_file,
                   todo, archived_files, lastResult, interrupted, at_start>>

\* cat tarball temp > new: the shell creates (or truncates) the .new file.
CatOpen(p) ==
    /\ pc[p] = "cat_open"
    /\ new_tarball' = FileOf(<<>>)
    /\ pc' = [pc EXCEPT ![p] = "cat_tarball"]
    /\ UNCHANGED <<source, unreadable, tarball, temp_tarball, progress_file,
                   locals, lastResult, interrupted, at_start>>

\* cat copies the existing tarball, written from the start of the .new file.
CatTarball(p) ==
    /\ pc[p] = "cat_tarball"
    /\ new_tarball' = FileOf(tarball.data)
    /\ pc' = [pc EXCEPT ![p] = "cat_temp"]
    /\ UNCHANGED <<source, unreadable, tarball, temp_tarball, progress_file,
                   locals, lastResult, interrupted, at_start>>

\* cat copies the segment behind it and exits with status 0.
CatTemp(p) ==
    /\ pc[p] = "cat_temp"
    /\ new_tarball' = FileOf(Concatenated(new_tarball.data, temp_tarball.data))
    /\ pc' = [pc EXCEPT ![p] = "replace"]
    /\ UNCHANGED <<source, unreadable, tarball, temp_tarball, progress_file,
                   locals, lastResult, interrupted, at_start>>

\* cat fails (disk full): os.system returns non-zero, create_tarball exits
\* with status 1 and leaves the .temp and .new files behind.
CatFail(p) ==
    /\ pc[p] \in {"cat_tarball", "cat_temp"}
    /\ Ends(p, "exit1_io")
    /\ UNCHANGED <<source, unreadable, tarball, temp_tarball, new_tarball,
                   progress_file, interrupted, at_start>>

\* os.replace(new_tarball, tarball_path); with the .new file gone (only when
\* another invocation has renamed it) the call raises.
Replace(p) ==
    /\ pc[p] = "replace"
    /\ IF new_tarball.exists
       THEN /\ tarball' = new_tarball
            /\ new_tarball' = Absent
            /\ pc' = [pc EXCEPT ![p] = "remove"]
            /\ UNCHANGED <<locals, lastResult>>
       ELSE /\ Ends(p, "crash")
            /\ UNCHANGED <<tarball, new_tarball>>
    /\ UNCHANGED <<source, unreadable, temp_tarball, progress_file,
                   interrupted, at_start>>

\* os.remove(temp_tarball); with the .temp file gone (only when another
\* invocation has removed it) the call raises.
RemoveTemp(p) ==
    /\ pc[p] = "remove"
    /\ IF temp_tarball.exists
       THEN /\ temp_tarball' = Absent
            /\ pc' = [pc EXCEPT ![p] = "res_write_open"]
            /\ UNCHANGED <<locals, lastResult>>
       ELSE /\ Ends(p, "crash")
            /\ UNCHANGED temp_tarball
    /\ UNCHANGED <<source, unreadable, tarball, new_tarball, progress_file,
                   interrupted, at_start>>

\* The invocation (and its tar or cat child) is killed.  A tar that is
\* writing leaves its output cut.
Kill(p) ==
    /\ pc[p] # "idle"
    /\ IF pc[p] \in TarPcs
       THEN \E c \in CutItems(p) : WriteTar(p, Append(TarData(p), c))
       ELSE UNCHANGED <<tarball, temp_tarball>>
    /\ Ends(p, "killed")
    /\ interrupted' = TRUE
    /\ UNCHANGED <<source, unreadable, new_tarball, progress_file, at_start>>

Step(p) ==
    \/ Start(p)
    \/ FreshPopen(p)
    \/ TarEntry(p)
    \/ TarSkipEntry(p)
    \/ TarClose(p)
    \/ TarIOFail(p)
    \/ OpenProgress(p)
    \/ WritePaths(p)
    \/ WriteMarker(p)
    \/ ListArchive(p)
    \/ ResumePopen(p)
    \/ CatOpen(p)
    \/ CatTarball(p)
    \/ CatTemp(p)
    \/ CatFail(p)
    \/ Replace(p)
    \/ RemoveTemp(p)
    \/ Kill(p)

\* One invocation at a time: each run starts after the previous one ended.
Next == Step("run1") /\ UNCHANGED others

Spec == Init /\ [][Next]_vars

\* A second invocation against the same tarball_path is started while no
\* invocation has ended yet: the two overlap.
StartOverlapping(p) == lastResult = "none" /\ Start(p)

NextConcurrent ==
    /\ UNCHANGED others
    /\ \E p \in Procs :
        \/ StartOverlapping(p)
        \/ FreshPopen(p)
        \/ TarEntry(p)
        \/ TarSkipEntry(p)
        \/ TarClose(p)
        \/ TarIOFail(p)
        \/ OpenProgress(p)
        \/ WritePaths(p)
        \/ WriteMarker(p)
        \/ ListArchive(p)
        \/ ResumePopen(p)
        \/ CatOpen(p)
        \/ CatTarball(p)
        \/ CatTemp(p)
        \/ CatFail(p)
        \/ Replace(p)
        \/ RemoveTemp(p)
        \/ Kill(p)

SpecConcurrent == Init /\ [][NextConcurrent]_vars

----------------------------------------------------------------------------
\* Between two runs the source tree and the progress file change under the
\* tool: files are deleted or rewritten, and the sidecar is lost or
\* left over from something else.

NoRun == \A p \in Procs : pc[p] = "idle"

\* A file is removed from the source tree.
DeleteSource ==
    /\ NoRun
    /\ \E f \in source :
          /\ source' = source \ {f}
          /\ modified' = modified \ {f}
    /\ UNCHANGED <<unreadable, tarball, temp_tarball, new_tarball, progress_file,
                   pc, locals, lastResult, interrupted, at_start,
                   main_pc, flags, s3_object, local_file, calls>>

\* The content of a source file changes after the archive got a member of
\* that path; the path stays.
ModifySource ==
    /\ NoRun
    /\ \E f \in (source \cap tar_list_output(tarball.data)) \ modified :
          modified' = modified \cup {f}
    /\ UNCHANGED <<source, unreadable, tarball, temp_tarball, new_tarball,
                   progress_file, pc, locals, lastResult, interrupted, at_start,
                   main_pc, flags, s3_object, local_file, calls>>

\* The progress file is removed, or holds a record that some other run left.
StaleSidecar ==
    /\ NoRun
    /\ \E r \in {NoRecord} \cup
                 {[exists |-> TRUE, paths |-> P, marker |-> "Complete"] :
                     P \in SUBSET Files} :
          /\ r # progress_file
          /\ progress_file' = r
    /\ UNCHANGED <<source, unreadable, tarball, temp_tarball, new_tarball,
                   pc, locals, lastResult, interrupted, at_start, others>>

\* Every file of the tree can be read.
InitReadable == Init /\ unreadable = {}

StepReadable(p) ==
    \/ Start(p)
    \/ FreshPopen(p)
    \/ TarEntry(p)
    \/ TarClose(p)
    \/ TarIOFail(p)
    \/ OpenProgress(p)
    \/ WritePaths(p)
    \/ WriteMarker(p)
    \/ ListArchive(p)
    \/ ResumePopen(p)
    \/ CatOpen(p)
    \/ CatTarball(p)
    \/ CatTemp(p)
    \/ CatFail(p)
    \/ Replace(p)
    \/ RemoveTemp(p)
    \/ Kill(p)

\* Runs of the tool, one at a time, over a source tree that changes between
\* them.
NextSource ==
    \/ StepReadable("run1") /\ UNCHANGED others
    \/ DeleteSource
    \/ ModifySource

SpecSource == InitReadable /\ [][NextSource]_vars

\* Runs of the tool, one at a time, with a progress file that changes between
\* them.
NextSidecar ==
    \/ StepReadable("run1") /\ UNCHANGED others
    \/ StaleSidecar

SpecSidecar == InitReadable /\ [][NextSidecar]_vars

----------------------------------------------------------------------------
\* main, upload_to_s3 and download_from_s3.  A string the user types is a
\* sequence of characters.

Yes == <<"y", "e", "s">>

Answers ==
    {Yes, <<"Y", "E", "S">>, <<" ", "y", "e", "s", " ">>, <<"y">>,
     <<"n", "o">>, <<>>}

\* str.lower on one character
LowerChar(c) ==
    CASE c = "Y" -> "y" [] c = "E" -> "e" [] c = "S" -> "s"
      [] c = "N" -> "n" [] c = "O" -> "o" [] OTHER -> c

lower(str) == [i \in 1..Len(str) |-> LowerChar(str[i])]

RECURSIVE lstrip(_)
lstrip(str) ==
    IF str # <<>> /\ Head(str) = " " THEN lstrip(Tail(str)) ELSE str

RECURSIVE rstrip(_)
rstrip(str) ==
    IF str # <<>> /\ str[Len(str)] = " "
    THEN rstrip(SubSeq(str, 1, Len(str) - 1))
    ELSE str

strip(str) == rstrip(lstrip(str))

\* response = input(...).strip().lower()
response(answer) == lower(strip(answer))

\* Every answer but a plain "no" lets the overwrite go on.
Overwrite_UnlessNo(answer) == response(answer) # <<"n", "o">>

\* if response != "yes": sys.exit(0)
Overwrite(answer) == response(answer) = Yes

\* upload_to_s3 is called whatever became of create_tarball.
UploadReached_Always(result) == TRUE

\* create_tarball(...) followed by upload_to_s3(...): the second call is
\* reached when the first returns; sys.exit, an exception and a kill end the
\* process inside it.
UploadReached(result) == result \in {"done", "already"}

Call(name) == <<name, <<>>>>

MainEnded == {"idle", "returned", "exit0", "exit1", "killed"}

\* Where main is when create_tarball has ended with the given result.
AfterBuild(p, result) ==
    IF p # "idle" THEN "build"
    ELSE IF UploadReached(result) THEN "up_exists"
    ELSE IF result = "killed" THEN "killed"
    ELSE "exit1"

\* tool upload --source ... --destination bucket:key : main calls
\* create_tarball.
MainUpload ==
    /\ main_pc \in MainEnded
    /\ Start("run1")
    /\ main_pc' = "build"
    /\ calls' = {Call("create_tarball")}
    /\ UNCHANGED <<modified, flags, s3_object, local_file>>

\* A step of create_tarball inside main; when it is the last one, main goes
\* on to upload_to_s3 or the process has ended.
BuildStep(p) ==
    /\ main_pc = "build"
    /\ \/ FreshPopen(p)
       \/ TarEntry(p)
       \/ TarSkipEntry(p)
       \/ TarClose(p)
       \/ TarIOFail(p)
       \/ OpenProgress(p)
       \/ WritePaths(p)
       \/ WriteMarker(p)
       \/ ListArchive(p)
       \/ ResumePopen(p)
       \/ CatOpen(p)
       \/ CatTarball(p)
       \/ CatTemp(p)
       \/ CatFail(p)
       \/ Replace(p)
       \/ RemoveTemp(p)
       \/ Kill(p)
    /\ main_pc' = AfterBuild(pc'[p], lastResult')
    /\ UNCHANGED <<modified, flags, s3_object, local_file, calls>>

create_vars ==
    <<source, unreadable, tarball, temp_tarball, new_tarball, progress_file,
      pc, locals, lastResult, interrupted, at_start, modified>>

\* upload_to_s3: os.path.exists(file_path), then validate_s3_bucket_and_key
\* (head_bucket, head_object); a request that fails ends the process.
UpExists ==
    /\ main_pc = "up_exists"
    /\ \/ /\ tarball.exists
          /\ main_pc' = IF s3_object THEN "up_prompt" ELSE "up_put"
       \/ main_pc' = "exit1"
    /\ UNCHANGED <<create_vars, flags, s3_object, local_file, calls>>

\* The key exists: the user is asked whether to overwrite it.
UpPrompt ==
    /\ main_pc = "up_prompt"
    /\ \E answer \in Answers :
          /\ calls' = calls \cup {<<"input", answer>>}
          /\ main_pc' = IF Overwrite(answer) THEN "up_put" ELSE "exit0"
    /\ UNCHANGED <<create_vars, flags, s3_object, local_file>>

\* s3.upload_fileobj and the validation behind it.
UpPut ==
    /\ main_pc = "up_put"
    /\ calls' = calls \cup {Call("upload_fileobj")}
    /\ \/ s3_object' = TRUE /\ main_pc' = "returned"
       \/ UNCHANGED s3_object /\ main_pc' = "exit1"
    /\ UNCHANGED <<create_vars, flags, local_file>>

\* tool download --source bucket:key --destination ... [--extract]
\* [--delete-s3-tarball] : main calls download_from_s3.
MainDownload ==
    /\ main_pc \in MainEnded
    /\ NoRun
    /\ \E e \in BOOLEAN, d \in BOOLEAN :
          flags' = [extract |-> e, delete_s3_tarball |-> d]
    /\ calls' = {}
    /\ main_pc' = "dl_validate"
    /\ UNCHANGED <<create_vars, s3_object, local_file>>

\* validate_s3_bucket_and_key, then os.path.exists(destination_path)
DlValidate ==
    /\ main_pc = "dl_validate"
    /\ \/ /\ s3_object
          /\ main_pc' = IF local_file # "absent" THEN "dl_prompt" ELSE "dl_open"
       \/ main_pc' = "exit1"
    /\ UNCHANGED <<create_vars, flags, s3_object, local_file, calls>>

\* The destination file exists: the user is asked whether to overwrite it.
DlPrompt ==
    /\ main_pc = "dl_prompt"
    /\ \E answer \in Answers :
          /\ calls' = calls \cup {<<"input", answer>>}
          /\ main_pc' = IF Overwrite(answer) THEN "dl_open" ELSE "exit0"
    /\ UNCHANGED <<create_vars, flags, s3_object, local_file>>

\* open(destination_path, "wb") creates or truncates the file.
DlOpen ==
    /\ main_pc = "dl_open"
    /\ calls' = calls \cup {Call("open_wb")}
    /\ local_file' = "empty"
    /\ main_pc' = "dl_get"
    /\ UNCHANGED <<create_vars, flags, s3_object>>

\* s3.download_fileobj writes the object to the file, or raises on the way.
DlGet ==
    /\ main_pc = "dl_get"
    /\ calls' = calls \cup {Call("download_fileobj")}
    /\ \/ local_file' = "complete" /\ main_pc' = "dl_extract"
       \/ local_file' = "partial" /\ main_pc' = "exit1"
    /\ UNCHANGED <<create_vars, flags, s3_object>>

\* if extract: os.system("tar -xzvf ..."); the status of tar is dropped.
DlExtract ==
    /\ main_pc = "dl_extract"
    /\ IF flags.extract
       THEN \E ok \in BOOLEAN :
               calls' = calls \cup {Call(IF ok THEN "extract_ok"
                                               ELSE "extract_failed")}
       ELSE UNCHANGED calls
    /\ main_pc' = "dl_delete"
    /\ UNCHANGED <<create_vars, flags, s3_object, local_file>>

\* if delete_s3_tarball: s3.delete_object(...)
DlDelete ==
    /\ main_pc = "dl_delete"
    /\ IF flags.delete_s3_tarball
       THEN /\ calls' = calls \cup {Call("delete_object")}
            /\ s3_object' = FALSE
       ELSE UNCHANGED <<calls, s3_object>>
    /\ main_pc' = "returned"
    /\ UNCHANGED <<create_vars, flags, local_file>>

NextMain ==
    \/ MainUpload
    \/ BuildStep("run1")
    \/ UpExists
    \/ UpPrompt
    \/ UpPut
    \/ MainDownload
    \/ DlValidate
    \/ DlPrompt
    \/ DlOpen
    \/ DlGet
    \/ DlExtract
    \/ DlDelete

SpecMain == Init /\ [][NextMain]_vars

----------------------------------------------------------------------------
\* What a reader can get out of an archive

\* The members a reader can extract completely, in order, reading across
\* concatenated segments (tar -i): everything up to the point where the
\* compressed stream is cut.
RECURSIVE CompleteFrom(_, _)
CompleteFrom(d, i) ==
    IF i > Len(d) THEN <<>>
    ELSE CASE d[i][1] = "full" -> <<d[i][2]>> \o CompleteFrom(d, i + 1)
           [] d[i][1] = "eoa" -> CompleteFrom(d, i + 1)
           [] OTHER -> <<>>

CompleteMembers(d) == CompleteFrom(d, 1)

CompleteSet(d) == {CompleteMembers(d)[i] : i \in 1..Len(CompleteMembers(d))}

Occurrences(d, f) ==
    Cardinality({i \in 1..Len(CompleteMembers(d)) : CompleteMembers(d)[i] = f})

Idle == \A p \in Procs : pc[p] = "idle"

ReturnedNormally == lastResult \in {"done", "already"}

----------------------------------------------------------------------------
\* C1 (Resumability): once a run has been killed, a later run that returns
\* normally leaves an archive whose listing is exactly the source files,
\* each of them extractable completely and exactly once.
C1_Resumability ==
    (Idle /\ interrupted /\ ReturnedNormally) =>
        /\ tar_list_output(tarball.data) = source
        /\ \A f \in source : Occurrences(tarball.data, f) = 1

\* Positions at which an invocation has written to the archive, the .temp
\* file or the .new file.
WritingPcs ==
    {"fresh_tar", "fresh_write_open", "fresh_write_paths", "fresh_write_mark",
     "res_tar", "cat_open", "cat_tarball", "cat_temp", "replace", "remove",
     "res_write_open", "res_write_paths", "res_write_mark"}

\* C2 (concurrent-run rejection): no two invocations are, at the same time,
\* past the point where they have written to the archive, the .temp file
\* or the .new file.
C2_NoTwoWriters ==
    \A p, q \in Procs :
        (pc[p] \in WritingPcs /\ pc[q] \in WritingPcs) => p = q

\* C3 (no truncated archive reported complete): whenever a run has returned
\* normally or a completion marker stands in the progress file, every
\* source file can be extracted completely from the archive.
C3_NeverReportsTruncated ==
    (ReturnedNormally \/ progress_file.marker # "none") =>
        source \subseteq CompleteSet(tarball.data)

\* The file at tarball_path lists, and lets a reader extract, every member
\* it did when the latest run found it.
C4_ListingKept ==
    at_start.tarball.exists =>
        /\ tarball.exists
        /\ tar_list_output(at_start.tarball.data) \subseteq tar_list_output(tarball.data)
        /\ CompleteSet(at_start.tarball.data) \subseteq CompleteSet(tarball.data)

\* The archive a run found changes only by the rename of a completely
\* written .new file (the old archive followed by the segment) over it.
C4_ReplacedByRename ==
    (at_start.tarball.exists /\ tarball' # tarball) =>
        /\ new_tarball.exists
        /\ new_tarball.data = tarball.data \o temp_tarball.data
        /\ tarball' = new_tarball
        /\ ~new_tarball'.exists

\* C4 (committed content is never lost): while and after a run that found
\* an archive, killed or failing at any step, the file at tarball_path
\* lists, and lets a reader extract, every member it did when the run
\* started; and that archive is only ever replaced by renaming a completely
\* written .new file over it, never rewritten in place.
C4_CommittedNeverLost == [](C4_ListingKept) /\ [][C4_ReplacedByRename]_vars

\* A resuming run was killed after the rename: the archive has grown and
\* still starts with what it held before.
C4_Witness ==
    /\ Idle
    /\ lastResult = "killed"
    /\ at_start.tarball.exists
    /\ CompleteSet(at_start.tarball.data) # {}
    /\ Len(tarball.data) > Len(at_start.tarball.data)

\* C5 (progress record never over-claims): every path the progress file
\* lists can be extracted completely from the archive.
C5_ProgressNeverOverClaims ==
    progress_file.exists => progress_file.paths \subseteq CompleteSet(tarball.data)

ProgressPcs ==
    {"fresh_write_open", "fresh_write_paths", "fresh_write_mark",
     "res_write_open", "res_write_paths", "res_write_mark"}

\* A run writes the progress file only after its tar command has handled
\* every entry and returned 0 and, when resuming, after the .new file has
\* been renamed over the archive and the .temp file removed.
C6_WritingPhase ==
    \A p \in Procs :
        pc[p] \in ProgressPcs =>
            /\ tar_error[p] = "none"
            /\ todo[p] = {}
            /\ tarball.exists
            /\ tarball.data # <<>>
            /\ tarball.data[Len(tarball.data)] = EOA
            /\ ~temp_tarball.exists
            /\ ~new_tarball.exists

\* The progress file changes only by a step of a run that is writing it.
C6_OnlyWrittenAtEnd ==
    progress_file' # progress_file =>
        \E p \in Procs : pc[p] \in ProgressPcs /\ pc'[p] # pc[p]

C7_SidecarAtomic ==
    (Idle /\ progress_file.exists) => progress_file.marker # "none"

\* C8 (per-entry failure is not fatal): no run exits with status 1 when the
\* only thing its tar command failed on was a source entry it could not open.
C8_EntryFailureNotFatal == lastResult # "exit1_entry"

\* C9 (archive-I/O failure leaves state consistent): after a run has exited
\* with status 1 on a failing tar or cat, the archive and the progress file
\* are what they were when that run started.
C9_IOFailureLeavesState ==
    (Idle /\ lastResult = "exit1_io") =>
        /\ tarball = at_start.tarball
        /\ progress_file = at_start.progress_file

\* C10 (idempotence): a run started after a run that returned normally
\* gets no further than listing the archive: it starts no tar command and
\* leaves the archive as it found it.
C10_SecondRunDoesNothing ==
    (ReturnedNormally /\ ~Idle) =>
        /\ \A p \in Procs : pc[p] \in {"idle", "list"}
        /\ tarball = at_start.tarball

----------------------------------------------------------------------------
\* C11 (Resume Planner result): a run that finds no archive at the target path
\* takes the whole source tree as its work list; a run that finds one takes
\* exactly the source files that tar -tzf does not list, and when there is no
\* such file it reports that everything is archived, returns normally and
\* leaves the archive as it was.
C11_ResumePlanner ==
    [][\A p \in Procs :
        LET listed == tar_list_output(tarball.data) IN
        /\ (pc[p] = "fresh_popen" /\ pc'[p] = "fresh_tar")
              => ~at_start.tarball.exists /\ todo'[p] = source
        /\ (pc[p] = "list" /\ pc'[p] = "res_popen")
              => /\ at_start.tarball.exists
                 /\ todo'[p] = source \ listed
                 /\ todo'[p] # {}
                 /\ tarball' = tarball
        /\ (pc[p] = "list" /\ pc'[p] = "idle" /\ lastResult' # "killed")
              => /\ source \ listed = {}
                 /\ lastResult' = "already"
                 /\ tarball' = tarball /\ tarball = at_start.tarball
        /\ (pc[p] = "list" /\ pc'[p] # "list" /\ source \ listed = {})
              => pc'[p] = "idle"]_vars

\* A resumed run has planned a work list that is neither empty nor the whole
\* source tree.
C11_Witness ==
    /\ pc["run1"] = "res_popen"
    /\ todo["run1"] # {}
    /\ todo["run1"] # source

----------------------------------------------------------------------------
\* The segments a tar run that returns 0 can write for the work list W: every
\* file of W once, in some order, then the end-of-archive marker.
Segments(W) ==
    LET n == Cardinality(W)
        orders == {o \in [1..n -> W] : \A i, j \in 1..n : o[i] = o[j] => i = j}
    IN {[i \in 1..(n + 1) |-> IF i <= n THEN Full(o[i]) ELSE EOA] : o \in orders}

\* The listings the archive d can have after a run over the tree src that
\* returned normally, as source tree and archive alone determine them.
PlannedListings(src, d) ==
    IF src \ tar_list_output(d) = {}
    THEN {tar_list_output(d)}
    ELSE {tar_list_output(d \o s) : s \in Segments(src \ tar_list_output(d))}

PlannedPcs ==
    {"res_popen", "res_tar", "cat_open", "cat_tarball", "cat_temp", "replace",
     "remove", "res_write_open", "res_write_paths", "res_write_mark"}

\* C12 (table of contents is authoritative over the sidecar): whatever the
\* progress file held when the run started (nothing, a record of another
\* state, any set of paths), the work of a run that found an archive is the
\* source files missing from the listing of that archive, and the listing of
\* the archive it leaves on a normal return is one that source tree and
\* archive at the start determine; starting states that differ in the
\* progress file only therefore get the same work list and the same final
\* table of contents.
C12_SidecarNotConsulted ==
    /\ \A p \in Procs :
          pc[p] \in PlannedPcs =>
             todo[p] \cup archived_list[p]
                = source \ tar_list_output(at_start.tarball.data)
    /\ (Idle /\ ReturnedNormally /\ at_start.tarball.exists) =>
          tar_list_output(tarball.data)
             \in PlannedListings(source, at_start.tarball.data)

\* A resumed run returned normally although the progress file it found
\* claimed a path that the listing of the archive did not have.
C12_Witness ==
    /\ Idle /\ lastResult = "done"
    /\ at_start.tarball.exists
    /\ at_start.progress_file.exists
    /\ at_start.progress_file.paths
          \cap (source \ tar_list_output(at_start.tarball.data)) # {}

----------------------------------------------------------------------------
\* C13 (reconciliation mismatch is repaired): when a run that found a progress
\* file claiming a path that the listing of the archive did not have returns
\* normally, the progress file it leaves names no path that is absent from
\* the listing of the archive, whether files were missing or not.
C13_StaleClaimDiscarded ==
    [][(/\ ~Idle /\ Idle' /\ ReturnedNormally'
        /\ at_start.tarball.exists
        /\ at_start.progress_file.exists
        /\ at_start.progress_file.paths
               \ tar_list_output(at_start.tarball.data) # {})
         => progress_file'.paths \subseteq tar_list_output(tarball'.data)]_vars

----------------------------------------------------------------------------
\* C14 (append-only monotonicity under source deletion): when a run that
\* found an archive with a member whose file is gone from the source tree
\* returns normally, the listing of the archive it leaves is the listing of
\* the archive it found together with the files of the source tree, the
\* member of the removed file included.
C14_UnionOfPriorAndSource ==
    [][(/\ ~Idle /\ Idle' /\ ReturnedNormally'
        /\ at_start.tarball.exists
        /\ tar_list_output(at_start.tarball.data) \ source # {})
         => tar_list_output(tarball'.data)
               = tar_list_output(at_start.tarball.data) \cup source]_vars

----------------------------------------------------------------------------
\* The files that have a member, whole or partial, in the data d.
MembersIn(d) == {d[i][2] : i \in {j \in 1..Len(d) : d[j][1] \in {"full", "part"}}}

\* C15 (no change detection): a source file that was rewritten after the
\* archive got a member of its path, and whose path the listing of the archive
\* found at the start has, is not in the work list of the resumed run and gets
\* no member in the segment that run writes.
C15_NoChangeDetection ==
    \A p \in Procs :
       pc[p] \in PlannedPcs =>
          \A f \in modified \cap tar_list_output(at_start.tarball.data) :
             /\ f \notin todo[p] \cup archived_list[p]
             /\ pc[p] # "res_popen" => f \notin MembersIn(temp_tarball.data)

\* A resumed run has written a member to its segment while a listed file of
\* the source tree has new content.
C15_Witness ==
    /\ pc["run1"] = "res_tar"
    /\ archived_list["run1"] # {}
    /\ modified \cap tar_list_output(at_start.tarball.data) # {}

----------------------------------------------------------------------------
\* The archives a resumed run can leave when it returns after writing: the
\* archive d it found, followed by one segment with the source files that the
\* listing of d does not have.
ResumedArchives(src, d) ==
    {d \o s : s \in Segments(src \ tar_list_output(d))}

LeftoverAtStart == at_start.temp_left \/ at_start.new_left

\* C18 (stale segment files never contaminate a later run): a run that found
\* data in tarball_path.temp or tarball_path.new left by a killed run puts
\* into its segment, into the concatenation and into the archive nothing but
\* the archive it found and the members of the currently missing source
\* files; the .temp file is gone when it returns.
C18_LeftoversOverwritten ==
    LeftoverAtStart =>
       /\ \A p \in Procs :
             /\ pc[p] \in {"cat_open", "cat_tarball", "cat_temp", "replace"}
                   => temp_tarball.data
                        \in Segments(source \ tar_list_output(at_start.tarball.data))
             /\ pc[p] = "replace"
                   => new_tarball.data
                        \in ResumedArchives(source, at_start.tarball.data)
       /\ (Idle /\ lastResult = "done") =>
             /\ tarball.data \in ResumedArchives(source, at_start.tarball.data)
             /\ ~temp_tarball.exists

\* A resumed run returned normally after it had found data in both leftover
\* files.
C18_Witness ==
    /\ Idle /\ lastResult = "done"
    /\ at_start.temp_left /\ at_start.new_left

----------------------------------------------------------------------------
Called(name) == Call(name) \in calls

\* C16 (remote deletion is ordered after successful extraction): in a run of
\* download_from_s3, delete_object has been called only if the download was
\* completed and the extraction was run and its tar returned 0.
C16_DeleteOnlyAfterExtraction ==
    Called("delete_object") =>
       Called("download_fileobj") /\ Called("extract_ok")

UploadPcs == {"up_exists", "up_prompt", "up_put"}

\* C17 (upload is gated on a successful build): main is in upload_to_s3, or
\* has called upload_fileobj, only when the create_tarball of the same
\* invocation has returned normally; when that create_tarball ended because
\* tar or cat returned a non-zero status, the process has exited with
\* status 1 and has made no upload call.
C17_UploadGatedOnBuild ==
    /\ (main_pc \in UploadPcs \/ Called("upload_fileobj")) =>
          Called("create_tarball") /\ Idle /\ ReturnedNormally
    /\ (/\ Called("create_tarball") /\ main_pc # "build"
        /\ lastResult \in {"exit1_entry", "exit1_io"}) =>
          main_pc = "exit1" /\ ~Called("upload_fileobj")

\* The archive of a resumed build has been uploaded.
C17_Witness ==
    /\ main_pc = "returned"
    /\ Called("upload_fileobj")
    /\ at_start.tarball.exists

\* Nothing was written or deleted and the process has exited with status 0.
Cancelled ==
    /\ main_pc = "exit0"
    /\ \A name \in {"upload_fileobj", "open_wb", "download_fileobj",
                     "extract_ok", "extract_failed", "delete_object"} :
          ~Called(name)

\* C19 as stated (overwrite requires explicit confirmation): when the user
\* was asked whether to overwrite the existing key or destination file and
\* typed anything other than yes, the process has exited with status 0
\* without an upload, without opening the destination file for writing, and
\* without download, extraction or remote deletion.
C19_OtherAnswerCancels ==
    \A c \in calls : (c[1] = "input" /\ c[2] # Yes) => Cancelled

\* C19 as amended: the same for every answer that is not yes once it is
\* stripped of surrounding blanks and put in lower case.
C19_OverwriteNeedsYes ==
    \A c \in calls : (c[1] = "input" /\ response(c[2]) # Yes) => Cancelled

\* A download was refused at the prompt for an existing destination file.
C19_Witness ==
    /\ main_pc = "exit0"
    /\ ~Called("create_tarball")
    /\ local_file # "absent"
    /\ \E c \in calls : c[1] = "input" /\ response(c[2]) # Yes

====
